---- MODULE Spec2Model ----
(***************************************************************************)
(* FiltersBrush of sugarloaf/src/components/filters/mod.rs: the chain of   *)
(* RetroArch filters with its intermediate textures, rebuilt by            *)
(* update_filters and applied to a frame by render.                        *)
(*                                                                         *)
(* A texture is its handle, a natural number.  create_texture returns a    *)
(* handle no texture in use has: the textures update_filters creates get   *)
(* handles never handed out to the brush before, and the duplicate of the  *)
(* source that render creates takes the next handle and gives it back when *)
(* render returns and drops it.  A loaded filter is a record [id, path],   *)
(* with an id no filter had before.                                        *)
(*                                                                         *)
(* render only records commands into the caller's encoder; the model keeps *)
(* the commands of the latest render, and Execute gives what they do to    *)
(* the contents of the textures once the caller submits them.              *)
(***************************************************************************)
EXTENDS Naturals, Sequences, FiniteSets, TLC

\* ---------------------------------------------------------------- bounds
\* Longest filter_paths list handed to update_filters.
MaxPaths == 4
\* update_filters runs while the handles of the textures it creates stay
\* within MaxTextures (the caller's two textures hold the first two) ...
MaxTextures == 7
\* ... and the ids of the filters it loads stay within MaxFilters.
MaxFilters == 5

\* The filter files a configuration can name. The code never looks into a
\* path, so the lists handed to update_filters are the catalogue's prefixes,
\* each with every set of paths that fail to load.
Catalogue == <<"crt", "scanlines", "bloom", "ntsc", "lcd", "glow", "blur", "hq2x">>
\* What a texture can hold before a render's commands run.
Images == {"imgA", "imgB"}
\* The frame counters a caller passes.
FrameCounts == {0, 1}

\* The Graphics Contexts a caller passes: the window's size at the time of
\* the call, and the surface's format.
Sizes == {[width |-> 800, height |-> 600], [width |-> 1024, height |-> 768]}
Formats == {"Bgra8Unorm"}
Contexts == [size : Sizes, format : Formats]

\* The caller's textures, handed to every render.
SrcTexture == 1
DstTexture == 2

VARIABLES
    filter_chains,         \* Vec<FilterChain>: sequence of [id, path]
    filter_intermediates,  \* Vec<Arc<Texture>>: sequence of texture handles
    textures,              \* the size and format of each texture the brush holds
    nextTexture,           \* the handle the device's next create_texture returns
    nextFilter,            \* the id of the next filter load_from_path returns
    last,                  \* the latest call: its name, its inputs, what it recorded
    panicked               \* a call unwound with a panic

vars == <<filter_chains, filter_intermediates, textures, nextTexture, nextFilter,
          last, panicked>>

\* ------------------------------------------------------------- sequences
Min(a, b) == IF a < b THEN a ELSE b

Range(s) == {s[i] : i \in 1..Len(s)}

\* A clear that leaves the vector as it was.
ClearKeeps(vec) == vec

\* Vec::clear (mod.rs:20-21).
Clear(vec) == <<>>

\* An iterator that takes the first n instead of skipping them.
IterTake(vec, n) == SubSeq(vec, 1, n)

\* Iterator::skip(n) over a vector (mod.rs:57): what is left after the first n.
IterSkip(vec, n) == SubSeq(vec, n + 1, Len(vec))

\* ------------------------------------------------------- update_filters
\* The loop of mod.rs:27-39 over filter_paths[from..]: a path whose index
\* (0-based, as in the slice) is in `failed` is logged and left out, every
\* other one is pushed; `id` is the id of the next filter loaded.
RECURSIVE LoadFrom(_, _, _, _)
LoadFrom(filter_paths, failed, id, from) ==
    IF from >= Len(filter_paths) THEN <<>>
    ELSE IF from \in failed
         THEN LoadFrom(filter_paths, failed, id, from + 1)
         ELSE <<[id |-> id, path |-> filter_paths[from + 1]]>>
              \o LoadFrom(filter_paths, failed, id + 1, from + 1)

\* A loop that gives up at the first path that fails to load.
RECURSIVE LoadFromAbort(_, _, _, _)
LoadFromAbort(filter_paths, failed, id, from) ==
    IF from >= Len(filter_paths) \/ from \in failed THEN <<>>
    ELSE <<[id |-> id, path |-> filter_paths[from + 1]]>>
         \o LoadFromAbort(filter_paths, failed, id + 1, from + 1)

LoadFiltersAbort(filter_paths, failed, id) == LoadFromAbort(filter_paths, failed, id, 0)

\* A loop that pushes a filter for every path, loaded or not.
LoadFiltersKeepFailed(filter_paths, failed, id) == LoadFrom(filter_paths, {}, id, 0)

\* The loop of mod.rs:27-39 over the whole of filter_paths.
LoadFilters(filter_paths, failed, id) == LoadFrom(filter_paths, failed, id, 0)

\* mod.rs:45-49 with the parity test dropped either way.
SkipAlways(len) == 1

SkipNever(len) == 0

\* A skip that leaves one texture for every two filters.
SkipToHalf(len) == len - (len \div 2)

\* mod.rs:45-49: one filter is skipped when the number of filters is odd.
Skip(len) == IF len % 2 = 1 THEN 1 ELSE 0

\* The number of iterations of the loop of mod.rs:57-74.
IntermediateCount(chains) == Len(IterSkip(chains, Skip(Len(chains))))

\* `n` textures created one after the other, the first with handle `first`.
NewTextures(first, n) == [i \in 1..n |-> first + i - 1]


\* What the allocation loop of mod.rs:57-74 can meet when it creates `count`
\* textures: every create_texture succeeds ("ok"), or one or more fail. The
\* device's error handler then either panics at the first that fails, the
\* one numbered `at` ("panic", wgpu's default), or reports the errors and
\* create_texture hands back a handle all the same ("invalid").
AllocOutcomes(count) ==
    {[kind |-> "ok", at |-> 0]}
    \cup {[kind |-> "invalid", at |-> 0] : i \in 1..Min(count, 1)}
    \cup {[kind |-> "panic", at |-> i] : i \in 1..count}

\* mod.rs:51-71: the descriptor of an intermediate texture.
TextureDescriptor(ctx) == [size |-> ctx.size, format |-> ctx.format]

\* The descriptors of the textures of `intermediates`: a texture the brush
\* held already keeps its own, a texture just created has `descriptor`.
Described(intermediates, kept, descriptor) ==
    [t \in Range(intermediates) |->
        IF t \in Range(kept) THEN textures[t] ELSE descriptor]

\* update_filters (mod.rs:19-75).
UpdateFilters(ctx, filter_paths, failed) ==
    LET chains0 == Clear(filter_chains)
        intermediates0 == Clear(filter_intermediates)
        chains1 == chains0 \o LoadFilters(filter_paths, failed, nextFilter)
        loaded == Len(chains1) - Len(chains0)
        count == IntermediateCount(chains1)
        held == [chains |-> Len(filter_chains),
                 intermediates |-> Len(filter_intermediates)]
    IN /\ ~panicked
       /\ IF filter_paths = <<>>
          THEN /\ filter_chains' = chains0
               /\ filter_intermediates' = intermediates0
               /\ textures' = Described(intermediates0, intermediates0,
                                        TextureDescriptor(ctx))
               /\ last' = [op |-> "update_filters", filter_paths |-> filter_paths,
                           failed |-> failed, alloc |-> "ok", held |-> held]
               /\ UNCHANGED <<nextTexture, nextFilter, panicked>>
          ELSE \E outcome \in AllocOutcomes(count) :
               LET created == IF outcome.kind = "panic" THEN outcome.at - 1 ELSE count
                   intermediates1 ==
                       intermediates0 \o NewTextures(nextTexture, created)
               IN /\ nextFilter + loaded <= MaxFilters + 1
                  /\ nextTexture + created <= MaxTextures + 1
                  /\ filter_chains' = chains1
                  /\ filter_intermediates' = intermediates1
                  /\ textures' = Described(intermediates1, intermediates0,
                                           TextureDescriptor(ctx))
                  /\ nextFilter' = nextFilter + loaded
                  /\ nextTexture' = nextTexture + created
                  /\ panicked' = (outcome.kind = "panic")
                  /\ last' = [op |-> "update_filters", filter_paths |-> filter_paths,
                              failed |-> failed, alloc |-> outcome.kind, held |-> held]

\* --------------------------------------------------------------- render
\* encoder.copy_texture_to_texture (mod.rs:89-93, 117-121), as recorded.
CopyTextureToTexture(src, dst) ==
    [op |-> "copy_texture_to_texture", src |-> src, dst |-> dst]

\* A wiring in which every filter but the first reads the first slot.
FilterSrcFirstSlot(idx, src_texture, intermediates) ==
    IF idx = 0 THEN src_texture ELSE intermediates[0 + 1]

\* A wiring in which the first filter reads the caller's own source texture.
FilterSrcOriginal(idx, src_texture, intermediates) ==
    IF idx = 0 THEN SrcTexture ELSE intermediates[(idx - 1) + 1]

\* A wiring in which the filters read the slots from the last one backwards.
FilterSrcFromEnd(idx, src_texture, intermediates) ==
    IF idx = 0 THEN src_texture ELSE intermediates[Len(intermediates) - (idx - 1)]

\* mod.rs:136-150: the texture filter `idx` reads.
FilterSrc(idx, src_texture, intermediates) ==
    IF idx = 0 THEN src_texture ELSE intermediates[(idx - 1) + 1]

\* The wiring with the destination slot off by one: the slot the filter reads.
FilterDstSameSlot(idx, filters_count, dst_texture, intermediates) ==
    IF idx = 0
    THEN IF filters_count = 1 THEN dst_texture ELSE intermediates[0 + 1]
    ELSE IF idx = filters_count - 1 THEN dst_texture ELSE intermediates[(idx - 1) + 1]

\* A wiring in which every filter but the last writes the first slot.
FilterDstFirstSlot(idx, filters_count, dst_texture, intermediates) ==
    IF idx = filters_count - 1 THEN dst_texture ELSE intermediates[0 + 1]

\* mod.rs:136-150: the texture filter `idx` writes.
FilterDst(idx, filters_count, dst_texture, intermediates) ==
    IF idx = 0
    THEN IF filters_count = 1 THEN dst_texture ELSE intermediates[0 + 1]
    ELSE IF idx = filters_count - 1 THEN dst_texture ELSE intermediates[idx + 1]

\* mod.rs:136-150: the indices of filter_intermediates filter `idx` uses.
Indexed(idx, filters_count) ==
    IF idx = 0
    THEN IF filters_count = 1 THEN {} ELSE {0}
    ELSE IF idx = filters_count - 1 THEN {idx - 1} ELSE {idx - 1, idx}

\* One iteration of the loop of mod.rs:132-172 in a render `r` that recorded
\* st.encoder so far: an index out of bounds panics; else filter.frame is
\* called, and when it fails (idx \in r.apply_failed) that is logged and
\* nothing more.
Frame(st, idx, r) ==
    IF \E i \in Indexed(idx, Len(r.chains)) : i >= Len(r.intermediates)
    THEN [st EXCEPT !.panicked = TRUE]
    ELSE [st EXCEPT !.encoder = Append(@,
            [op |-> "frame",
             filter |-> r.chains[idx + 1],
             src |-> FilterSrc(idx, r.src_texture, r.intermediates),
             dst |-> FilterDst(idx, Len(r.chains), r.dst_texture, r.intermediates),
             view_size |-> r.ctx.size,
             format |-> r.ctx.format,
             framecount |-> r.framecount,
             ok |-> idx \notin r.apply_failed])]

\* A loop that leaves at the first filter whose frame fails.
RECURSIVE FramesFromAbort(_, _, _)
FramesFromAbort(st, idx, r) ==
    IF idx >= Len(r.chains) \/ st.panicked THEN st
    ELSE IF idx \in r.apply_failed THEN Frame(st, idx, r)
    ELSE FramesFromAbort(Frame(st, idx, r), idx + 1, r)

RunFiltersAbort(st, r) == FramesFromAbort(st, 0, r)

\* The loop of mod.rs:132-172 from filter `idx` on.
RECURSIVE FramesFrom(_, _, _)
FramesFrom(st, idx, r) ==
    IF idx >= Len(r.chains) \/ st.panicked THEN st
    ELSE FramesFrom(Frame(st, idx, r), idx + 1, r)

\* A loop that hands the filters the counter of the next frame.
RunFiltersNextFrame(st, r) ==
    FramesFrom(st, 0, [r EXCEPT !.framecount = r.framecount + 1])

\* The loop of mod.rs:132-172 over the whole chain.
RunFilters(st, r) == FramesFrom(st, 0, r)

\* An iteration that takes the filters out of the vector, as drain(..) does.
IterDrain(vec) == <<>>

\* Vec::iter_mut (mod.rs:132): what the vector holds once the loop is over.
\* The filters are borrowed in place; the vector keeps them, in their order.
IterMut(vec) == vec

\* A passthrough that duplicates the source first, as the filtered path does.
PassthroughDuplicates(src_texture, dst_texture, new_texture) ==
    [encoder |-> <<CopyTextureToTexture(src_texture, new_texture),
                   CopyTextureToTexture(new_texture, dst_texture)>>,
     created |-> {new_texture}]

\* mod.rs:88-96: what render records, and creates, when there are no filters.
Passthrough(src_texture, dst_texture, new_texture) ==
    [encoder |-> <<CopyTextureToTexture(src_texture, dst_texture)>>,
     created |-> {}]

\* render (mod.rs:80-173) of the caller's SrcTexture into DstTexture.
Render(ctx, framecount, apply_failed) ==
    /\ ~panicked
    /\ IF filter_chains = <<>>
       THEN LET done == Passthrough(SrcTexture, DstTexture, nextTexture)
            IN /\ last' = [op |-> "render", ctx |-> ctx, framecount |-> framecount,
                           apply_failed |-> apply_failed,
                           encoder |-> done.encoder, created |-> done.created]
               /\ UNCHANGED <<filter_chains, panicked>>
       ELSE LET new_src_texture == nextTexture
                r == [ctx |-> ctx,
                      chains |-> filter_chains,
                      intermediates |-> filter_intermediates,
                      src_texture |-> new_src_texture,
                      dst_texture |-> DstTexture,
                      framecount |-> framecount,
                      apply_failed |-> apply_failed]
                st == RunFilters(
                          [encoder |-> <<CopyTextureToTexture(SrcTexture, new_src_texture)>>,
                           panicked |-> FALSE], r)
            IN /\ panicked' = st.panicked
               /\ filter_chains' = IterMut(filter_chains)
               /\ last' = [op |-> "render", ctx |-> ctx, framecount |-> framecount,
                           apply_failed |-> apply_failed,
                           encoder |-> st.encoder, created |-> {new_src_texture}]
    /\ UNCHANGED <<filter_intermediates, textures, nextTexture, nextFilter>>

\* ------------------------------------------------------- specification
\* FiltersBrush::new (mod.rs:11-16); the caller holds SrcTexture and DstTexture.
Init ==
    /\ filter_chains = <<>>
    /\ filter_intermediates = <<>>
    /\ textures = <<>>
    /\ nextTexture = DstTexture + 1
    /\ nextFilter = 1
    /\ last = [op |-> "new"]
    /\ panicked = FALSE

\* The lists of paths update_filters is called with.
FilterLists == {SubSeq(Catalogue, 1, k) : k \in 0..Min(MaxPaths, Len(Catalogue))}

DoUpdateFilters ==
    \E ctx \in Contexts, filter_paths \in FilterLists :
        \E failed \in SUBSET (0..(Len(filter_paths) - 1)) :
            UpdateFilters(ctx, filter_paths, failed)

DoRender ==
    \E ctx \in Contexts, framecount \in FrameCounts :
        \E apply_failed \in SUBSET (0..(Len(filter_chains) - 1)) :
            Render(ctx, framecount, apply_failed)

Next == DoUpdateFilters \/ DoRender

Spec == Init /\ [][Next]_vars

\* ------------------------------------------------ what the commands do
\* What texture `t` holds in contents `d`; a texture nothing wrote to holds <<>>.
Read(d, t) == IF t \in DOMAIN d THEN d[t] ELSE <<>>

\* The contents of the textures once `commands` ran on contents `d`: a copy
\* (mod.rs:89-93, 117-121) makes dst hold what src holds; a frame that
\* succeeded (mod.rs:167-168) makes dst hold what src holds with the filter
\* applied on top; a frame that failed wrote nothing.
RECURSIVE Execute(_, _)
Execute(commands, d) ==
    IF commands = <<>> THEN d
    ELSE LET c == Head(commands)
             written == IF c.op = "frame"
                        THEN Append(Read(d, c.src), c.filter.path)
                        ELSE Read(d, c.src)
         IN IF c.op = "frame" /\ ~c.ok
            THEN Execute(Tail(commands), d)
            ELSE Execute(Tail(commands),
                         [t \in DOMAIN d \cup {c.dst} |->
                             IF t = c.dst THEN written ELSE d[t]])

\* --------------------------------------------------------------- claims
UpdateCompleted == last.op = "update_filters" /\ ~panicked

Rendered == last.op = "render"

\* The number of paths of the latest update_filters that loaded.
Loaded == Len(last.filter_paths) - Cardinality(last.failed)

\* The frame commands of the latest render, in the order recorded.
Frames == SelectSeq(last.encoder, LAMBDA c : c.op = "frame")

\* The copy commands of the latest render, in the order recorded.
Copies == SelectSeq(last.encoder, LAMBDA c : c.op = "copy_texture_to_texture")

\* The number of intermediate textures the loop of update_filters leaves for
\* n filters: n when n is even, n - 1 when n is odd.
Allocated(n) == n - (n % 2)

\* C1 as stated: after update_filters completes with N loaded filters, the
\* number of intermediate textures is floor(N/2).
C1_FloorHalf ==
    UpdateCompleted => Len(filter_intermediates) = Loaded \div 2

\* C1 as amended: after update_filters completes with N loaded filters, the
\* number of intermediate textures is N when N is even and N - 1 when N is
\* odd (0, 0, 2, 2, 4, 4 for N = 0..5).
C1_EvenCount ==
    UpdateCompleted =>
        /\ Len(filter_intermediates) = Loaded - (Loaded % 2)
        /\ Loaded = 0 => Len(filter_intermediates) = 0
        /\ Loaded = 1 => Len(filter_intermediates) = 0
        /\ Loaded = 2 => Len(filter_intermediates) = 2
        /\ Loaded = 3 => Len(filter_intermediates) = 2
        /\ Loaded = 4 => Len(filter_intermediates) = 4
        /\ Loaded = 5 => Len(filter_intermediates) = 4

C1_Witness ==
    /\ UpdateCompleted
    /\ Loaded = 4
    /\ Len(filter_intermediates) = 4

\* C2: in every render, no filter is handed the same texture as its source
\* and as its destination.
C2_NoSelfAliasing ==
    Rendered => \A i \in 1..Len(Frames) : Frames[i].src # Frames[i].dst

C2_Witness ==
    /\ Rendered
    /\ Len(filter_chains) >= 4
    /\ Len(Frames) = Len(filter_chains)

\* C3: with no filters, render records exactly one command, the copy of the
\* caller's source into the caller's destination, calls no filter and
\* creates no texture; once the command ran the destination holds what the
\* source held.
C3_Passthrough ==
    (Rendered /\ filter_chains = <<>>) =>
        /\ last.encoder = <<CopyTextureToTexture(SrcTexture, DstTexture)>>
        /\ Frames = <<>>
        /\ last.created = {}
        /\ ~panicked
        /\ \A image \in Images, old \in Images :
               LET before == (SrcTexture :> <<image>>) @@ (DstTexture :> <<old>>)
                   after == Execute(last.encoder, before)
               IN /\ after[DstTexture] = <<image>>
                  /\ after[SrcTexture] = <<image>>

C3_Witness ==
    /\ Rendered
    /\ filter_chains = <<>>
    /\ Len(last.encoder) = 1
    /\ nextFilter > 1

\* C4: with exactly one filter loaded, update_filters creates no
\* intermediate texture, and every render after it records the copy of the
\* source into its duplicate and one frame, of that filter, from the
\* duplicate into the caller's destination: no other texture is used.
C4_SingleFilterDirect ==
    /\ (UpdateCompleted /\ Loaded = 1) => filter_intermediates = <<>>
    /\ (Rendered /\ Len(filter_chains) = 1) =>
           \E new_src_texture \in last.created :
               /\ last.created = {new_src_texture}
               /\ new_src_texture \notin {SrcTexture, DstTexture}
               /\ filter_intermediates = <<>>
               /\ Len(last.encoder) = 2
               /\ last.encoder[1] = CopyTextureToTexture(SrcTexture, new_src_texture)
               /\ last.encoder[2].op = "frame"
               /\ last.encoder[2].filter = filter_chains[1]
               /\ last.encoder[2].src = new_src_texture
               /\ last.encoder[2].dst = DstTexture

C4_Witness ==
    /\ Rendered
    /\ Len(filter_chains) = 1
    /\ Len(Frames) = 1
    /\ Frames[1].dst = DstTexture

\* C5: when exactly one of the K paths fails to load, the chain has K - 1
\* filters and the intermediate textures are as many as update_filters
\* creates for K - 1 filters.
C5_OneFailure ==
    (UpdateCompleted /\ Cardinality(last.failed) = 1) =>
        /\ Len(filter_chains) = Len(last.filter_paths) - 1
        /\ Len(filter_intermediates) = Allocated(Len(last.filter_paths) - 1)

C5_Witness ==
    /\ UpdateCompleted
    /\ Cardinality(last.failed) = 1
    /\ Len(last.filter_paths) = 4
    /\ Len(filter_chains) = 3
    /\ Len(filter_intermediates) = 2

\* The indices (0-based) of the paths of the latest update_filters that loaded.
Survivors == {i \in 0..(Len(last.filter_paths) - 1) : i \notin last.failed}

\* C6: after update_filters the chain is the paths that loaded, in the order
\* of the list, whatever paths failed: the j-th filter was loaded from the
\* j-th path that did not fail.
C6_LoadedSubsequence ==
    UpdateCompleted =>
        /\ Len(filter_chains) = Cardinality(Survivors)
        /\ \A i \in Survivors :
               filter_chains[Cardinality({k \in Survivors : k < i}) + 1].path
                   = last.filter_paths[i + 1]

C6_Witness ==
    /\ UpdateCompleted
    /\ \E i \in last.failed : \E j \in Survivors : \E k \in Survivors :
           i < j /\ j < k
    /\ Len(filter_chains) >= 2

\* C7: when the frame of filter i fails, render goes on: every filter after
\* i is called in that render, with the source and destination its place in
\* the chain gives it, and render returns normally.
C7_FailureDoesNotStop ==
    (Rendered /\ filter_chains # <<>>) =>
        \A i \in last.apply_failed :
            /\ ~panicked
            /\ Len(Frames) = Len(filter_chains)
            /\ ~Frames[i + 1].ok
            /\ \A j \in (i + 1)..(Len(filter_chains) - 1) :
                   /\ Frames[j + 1].filter = filter_chains[j + 1]
                   /\ Frames[j + 1].src = filter_intermediates[j]
                   /\ Frames[j + 1].dst = IF j = Len(filter_chains) - 1
                                          THEN DstTexture
                                          ELSE filter_intermediates[j + 1]

C7_Witness ==
    /\ Rendered
    /\ Len(filter_chains) >= 3
    /\ 0 \in last.apply_failed
    /\ Len(Frames) = Len(filter_chains)
    /\ Frames[Len(Frames)].ok

\* C8: when the creation of an intermediate texture fails in update_filters,
\* the chain and the intermediate textures are what they were before the call.
C8_PreviousConfigurationKept ==
    [][(last'.op = "update_filters" /\ last'.alloc # "ok")
          => (filter_chains' = filter_chains
              /\ filter_intermediates' = filter_intermediates)]_vars

\* C9: whenever a render starts, which it can in every state no call
\* panicked in, the intermediate textures are as many as update_filters
\* creates for the filters the chain holds now.
C9_CountMatchesChain ==
    ~panicked => Len(filter_intermediates) = Allocated(Len(filter_chains))

C9_Witness ==
    /\ Rendered
    /\ Len(filter_chains) = 1
    /\ filter_chains[1].id > 2
    /\ filter_intermediates = <<>>

\* C10: update_filters with an empty list leaves no filter and no
\* intermediate texture, whatever the brush held before.
C10_EmptyListClears ==
    (UpdateCompleted /\ last.filter_paths = <<>>) =>
        /\ filter_chains = <<>>
        /\ filter_intermediates = <<>>

C10_Witness ==
    /\ UpdateCompleted
    /\ last.filter_paths = <<>>
    /\ last.held.chains >= 2
    /\ last.held.intermediates >= 2

\* The duplicate of the source the latest render created.
NewSrcTexture == CHOOSE t \in last.created : TRUE

\* C11: in a render with N >= 2 filters, filter i reads the duplicate of the
\* source when i = 0 and the intermediate texture i - 1 otherwise, and writes
\* the caller's destination when i = N - 1 and the intermediate texture i
\* otherwise.
C11_Wiring ==
    (Rendered /\ Len(filter_chains) >= 2) =>
        /\ Len(Frames) = Len(filter_chains)
        /\ last.created # {}
        /\ \A i \in 0..(Len(filter_chains) - 1) :
               /\ Frames[i + 1].src = IF i = 0
                                      THEN NewSrcTexture
                                      ELSE filter_intermediates[(i - 1) + 1]
               /\ Frames[i + 1].dst = IF i = Len(filter_chains) - 1
                                      THEN DstTexture
                                      ELSE filter_intermediates[i + 1]

C11_Witness ==
    /\ Rendered
    /\ Len(filter_chains) = 4
    /\ Len(Frames) = 4
    /\ Frames[3].src = filter_intermediates[2]
    /\ Frames[3].dst = filter_intermediates[3]

\* C12: in a render with N >= 2 filters, what a filter that is not the last
\* writes is an intermediate texture, the one the next filter reads, and no
\* intermediate texture is written by two filters of the render.
C12_Handoff ==
    (Rendered /\ Len(filter_chains) >= 2) =>
        /\ Len(Frames) = Len(filter_chains)
        /\ \A i \in 1..(Len(Frames) - 1) :
               /\ Frames[i].dst \in Range(filter_intermediates)
               /\ Frames[i].dst = Frames[i + 1].src
        /\ \A i \in 1..Len(Frames) : \A j \in 1..Len(Frames) :
               (/\ Frames[i].dst \in Range(filter_intermediates)
                /\ Frames[i].dst = Frames[j].dst) => i = j

C12_Witness ==
    /\ Rendered
    /\ Len(filter_chains) >= 3
    /\ Len(Frames) = Len(filter_chains)
    /\ Frames[1].dst = Frames[2].src
    /\ Frames[2].dst = Frames[3].src
    /\ Frames[1].dst # Frames[2].dst

\* C13: when a render starts, every intermediate texture has the size and
\* the format of the Graphics Context passed to that render (checked when
\* the render returns: a render changes neither the textures nor its ctx).
C13_BuffersMatchContext ==
    Rendered =>
        \A t \in Range(filter_intermediates) :
            /\ textures[t].size = last.ctx.size
            /\ textures[t].format = last.ctx.format

\* C14: a render leaves the filters, their order, the intermediate textures
\* and their descriptors as they were, whichever frames fail, and creates no
\* texture but the duplicate of the source (none when there is no filter).
C14_RenderKeepsChain ==
    [][last'.op = "render" =>
          /\ filter_chains' = filter_chains
          /\ filter_intermediates' = filter_intermediates
          /\ textures' = textures
          /\ nextFilter' = nextFilter
          /\ Cardinality(last'.created) = IF filter_chains = <<>> THEN 0 ELSE 1
          /\ last'.created \cap Range(filter_intermediates) = {}
          /\ last'.created \cap {SrcTexture, DstTexture} = {}]_vars

C14_Witness ==
    /\ Rendered
    /\ Len(filter_chains) >= 2
    /\ last.apply_failed # {}
    /\ last.apply_failed # 0..(Len(filter_chains) - 1)
    /\ Cardinality(last.created) = 1

\* C15: after update_filters the brush holds no filter and no intermediate
\* texture it held before the call: all of them were created in the call.
C15_NothingReused ==
    [][last'.op = "update_filters" =>
          /\ Range(filter_chains') \cap Range(filter_chains) = {}
          /\ Range(filter_intermediates') \cap Range(filter_intermediates) = {}
          /\ \A i \in 1..Len(filter_chains') : filter_chains'[i].id >= nextFilter
          /\ \A i \in 1..Len(filter_intermediates') :
                 filter_intermediates'[i] >= nextTexture]_vars

C15_Witness ==
    /\ UpdateCompleted
    /\ last.filter_paths = SubSeq(Catalogue, 1, 2)
    /\ last.failed = {}
    /\ last.held.chains = 2
    /\ last.held.intermediates = 2
    /\ nextFilter = 5
    /\ Len(filter_intermediates) = 2

\* C16: a render with N >= 1 filters records exactly one copy, of the
\* caller's source into a texture created in that render, before every
\* frame, and no filter is handed the caller's source texture.
C16_OneCopyFirst ==
    (Rendered /\ filter_chains # <<>>) =>
        /\ Len(Copies) = 1
        /\ Cardinality(last.created) = 1
        /\ last.encoder[1] = CopyTextureToTexture(SrcTexture, NewSrcTexture)
        /\ NewSrcTexture \notin {SrcTexture, DstTexture} \cup Range(filter_intermediates)
        /\ \A k \in 2..Len(last.encoder) : last.encoder[k].op = "frame"
        /\ \A i \in 1..Len(Frames) :
               Frames[i].src # SrcTexture /\ Frames[i].dst # SrcTexture

C16_Witness ==
    /\ Rendered
    /\ Len(filter_chains) >= 2
    /\ Len(last.encoder) = Len(filter_chains) + 1
    /\ last.encoder[1].op = "copy_texture_to_texture"
    /\ last.encoder[2].src = last.encoder[1].dst

\* C17: a render with N >= 1 filters calls every filter of the chain exactly
\* once, in the order of the chain, each with the frame counter render was
\* called with.
C17_EachOnceInOrder ==
    (Rendered /\ filter_chains # <<>>) =>
        /\ Len(Frames) = Len(filter_chains)
        /\ \A i \in 1..Len(Frames) :
               /\ Frames[i].filter = filter_chains[i]
               /\ Frames[i].framecount = last.framecount
        /\ \A i \in 1..Len(Frames) : \A j \in 1..Len(Frames) :
               Frames[i].filter = Frames[j].filter => i = j

C17_Witness ==
    /\ Rendered
    /\ Len(filter_chains) >= 3
    /\ last.framecount = 1
    /\ last.apply_failed # {}
    /\ Frames[3].filter = filter_chains[3]
    /\ Frames[3].framecount = 1

\* What every texture in use holds when the commands of the latest render
\* start to run: something of its own, written in an earlier frame or left
\* from its creation.
Before ==
    [t \in {SrcTexture, DstTexture} \cup Range(filter_intermediates) |-> <<t>>]

\* C18: when the frame of a filter i that is not the last fails, none of the
\* render's commands writes the intermediate texture it was to write, and
\* filter i + 1 is still called and reads that texture: it reads what the
\* texture held before the render.
C18_StaleHandoff ==
    (Rendered /\ Len(filter_chains) >= 2) =>
        \A i \in last.apply_failed :
            i < Len(filter_chains) - 1 =>
                /\ Len(Frames) = Len(filter_chains)
                /\ Len(last.encoder) = Len(Frames) + 1
                /\ ~Frames[i + 1].ok
                /\ Frames[i + 1].dst \in Range(filter_intermediates)
                /\ Frames[i + 2].src = Frames[i + 1].dst
                /\ \A k \in 1..Len(last.encoder) :
                       last.encoder[k].dst = Frames[i + 1].dst =>
                           (last.encoder[k].op = "frame" /\ ~last.encoder[k].ok)
                /\ Read(Execute(SubSeq(last.encoder, 1, i + 2), Before),
                        Frames[i + 2].src) = Before[Frames[i + 1].dst]

C18_Witness ==
    /\ Rendered
    /\ Len(filter_chains) >= 3
    /\ last.apply_failed = {1}
    /\ Len(Frames) = Len(filter_chains)
    /\ Frames[3].src = Frames[2].dst
    /\ Frames[3].ok

\* C19: render never indexes filter_intermediates out of bounds: whenever
\* the chain holds N >= 2 filters there are at least N - 1 intermediate
\* textures, and every render calls all its filters and returns normally.
C19_IndexInBounds ==
    /\ ~panicked =>
           (Len(filter_chains) >= 2 =>
                Len(filter_intermediates) >= Len(filter_chains) - 1)
    /\ Rendered =>
           /\ ~panicked
           /\ Len(Frames) = Len(filter_chains)

C19_Witness ==
    /\ Rendered
    /\ Len(filter_chains) = 3
    /\ Len(filter_intermediates) = 2
    /\ Len(Frames) = 3
    /\ Frames[3].src = filter_intermediates[2]

\* C20: the allocation loop of update_filters creates one intermediate
\* texture for every filter, but for one filter when their number is odd: N
\* textures, all different, for an even N and N - 1 for an odd N.
C20_OnePerFilterButOdd ==
    UpdateCompleted =>
        /\ Len(filter_chains) % 2 = 0 =>
               Len(filter_intermediates) = Len(filter_chains)
        /\ Len(filter_chains) % 2 = 1 =>
               Len(filter_intermediates) + 1 = Len(filter_chains)
        /\ Cardinality(Range(filter_intermediates)) = Len(filter_intermediates)

C20_Witness ==
    /\ UpdateCompleted
    /\ Len(filter_chains) = 3
    /\ Len(filter_intermediates) = 2
    /\ last.failed # {}

\* The textures the filters of the last render read, and those they wrote to.
FramesRead == {Frames[k].src : k \in 1..Len(Frames)}

FramesWritten == {Frames[k].dst : k \in 1..Len(Frames)}

\* C21: a render of N >= 2 filters uses exactly the intermediate textures
\* at indices 0..N-2: its filters write each of them and read each of them,
\* and an intermediate texture at index N-1 or above is the source or the
\* destination of no command of the render.
C21_OnlyFirstSlots ==
    (Rendered /\ Len(filter_chains) >= 2) =>
        LET n == Len(filter_chains)
            slots == {filter_intermediates[i + 1] : i \in 0..(n - 2)}
        IN /\ Len(filter_intermediates) >= n - 1
           /\ Len(Frames) = n
           /\ FramesRead \cap Range(filter_intermediates) = slots
           /\ FramesWritten \cap Range(filter_intermediates) = slots
           /\ \A j \in (n - 1)..(Len(filter_intermediates) - 1) :
                  \A k \in 1..Len(last.encoder) :
                      /\ last.encoder[k].src # filter_intermediates[j + 1]
                      /\ last.encoder[k].dst # filter_intermediates[j + 1]

C21_Witness ==
    /\ Rendered
    /\ Len(filter_chains) = 4
    /\ Len(filter_intermediates) = 4
    /\ Len(Frames) = 4
    /\ Frames[4].src = filter_intermediates[3]
    /\ filter_intermediates[4] \notin FramesRead \cup FramesWritten

\* The last call was an update_filters with paths, none of which loaded.
AllFailed ==
    /\ last.op = "update_filters"
    /\ last.filter_paths # <<>>
    /\ Cardinality(last.failed) = Len(last.filter_paths)

\* C22: an update_filters with a list of paths that is not empty, none of
\* which loads, returns with no filter and no intermediate texture, and a
\* render that comes next records the copy of the caller's source into the
\* caller's destination and nothing else: no duplicate is created and no
\* filter is called.
C22_AllFailedPassthrough ==
    [][/\ AllFailed' =>
             /\ filter_chains' = <<>>
             /\ filter_intermediates' = <<>>
             /\ DOMAIN textures' = {}
             /\ nextTexture' = nextTexture
             /\ ~panicked'
       /\ (AllFailed /\ last'.op = "render") =>
             /\ last'.encoder = <<CopyTextureToTexture(SrcTexture, DstTexture)>>
             /\ last'.created = {}
             /\ ~panicked']_vars

C22_Witness ==
    /\ AllFailed
    /\ Len(last.filter_paths) = 3
    /\ last.held.chains = 2
    /\ last.held.intermediates = 2
    /\ filter_chains = <<>>
    /\ filter_intermediates = <<>>
====
